---- MODULE Spec2Model ----
(***************************************************************************)
(* A model of ralph (src/src/main.rs): the iteration loop of main, the     *)
(* agent invokers run_codex / run_sdk / run_generic, append_log, the       *)
(* capture loop read_with_limit, run_process_with_timeout with its child   *)
(* and its two drain threads, the negotiation of goal and next action in   *)
(* main with its prompts, and extract_json_block / parse_goal_payload.     *)
(* Each part has its own specification; the variables of the other parts   *)
(* rest at idle values in it.                                              *)
(*                                                                         *)
(* Byte strings are sequences over Bytes.  "a" is an ASCII letter, " " is  *)
(* ASCII white space, "X" is a byte that is not valid UTF-8 (0xFF) and "R" *)
(* is the UTF-8 encoding of U+FFFD, taken as one unit.  Text (a Rust       *)
(* String) is a sequence over the same units without "X".                  *)
(*                                                                         *)
(* Time is counted in ticks, TicksPerSec ticks to the second, so that      *)
(* Duration::as_secs is a real truncation.                                 *)
(*                                                                         *)
(* The host is taken to be reliable where the program only propagates a    *)
(* host failure with `?`: writes to the terminal and to the log file       *)
(* succeed, reads of the terminal give valid UTF-8 text or end-of-input.   *)
(* Failures of an invocation itself (spawn, pipe, timeout) are outcomes of *)
(* Invoke, and steps of the runner.  The pipes of a child are held by the  *)
(* child alone, so that they close when it ends.                           *)
(***************************************************************************)
EXTENDS Integers, Sequences, FiniteSets, TLC

VARIABLES
    \* ---- configuration (Args, main lines 898-928), fixed during a run
    iterations,      \* args.iterations
    max_seconds,     \* args.max_seconds, 0 = no budget
    sleep_secs,      \* args.sleep
    no_log,          \* args.no_log
    stop_token,      \* args.stop_token
    runner,          \* args.runner: "codex", "sdk" or any other program
    codex_json,      \* args.codex_json
    runner_timeout,  \* args.runner_timeout in seconds, 0 = None
    \* ---- the iteration loop of main (lines 1149-1250)
    pc,              \* "loop", "invoke", "match", "done" (Ok(())), "failed" (Err)
    i,               \* the loop variable; 0 before the first iteration
    elapsed,         \* start.elapsed() in ticks
    stop_reason,     \* Option<String>
    result,          \* io::Result<Output> of the latest invocation; forgotten
                     \* when the loop goes on to the next iteration
    error,           \* the io::Error main returns
    log_file,        \* the records of the log file, oldest first
    \* ---- observers
    invoked,         \* the iteration indices at which the agent was invoked
    log_start,       \* number of records in the log file when this run began
    runs,            \* number of runs of the program so far
    \* ---- read_with_limit on one captured pipe (lines 385-398)
    limit,           \* the limit argument
    child_todo,      \* bytes the child still wants to write
    written,         \* bytes the child has written to the pipe
    pipe,            \* bytes in the pipe, not yet read
    write_open,      \* the child still holds the write end
    buf,             \* buf
    chunk,           \* chunk, with whatever earlier reads left in it
    rd,              \* "idle", "reading", "returned"
    \* ---- one call of an invoker (run_codex, run_sdk, run_generic)
    child,           \* what the child of the call does: its stdout, stderr,
                     \* exit status and final-message file
    \* ---- run_process_with_timeout (lines 400-465)
    rpc,             \* where the call is: "idle", "spawn", "write", "close",
                     \* "threads", "wait", "kill", "reap", "join_out",
                     \* "join_err", "returned"
    input,           \* the input argument: NoInput or the payload length
    timeout,         \* the timeout argument, 0 = None
    capture,         \* capture_stdout, capture_stderr, by stream
    to_write,        \* bytes of the payload write_all has not written yet
    stdin_pipe,      \* bytes in the stdin pipe the child has not read
    stdin_w,         \* the runner holds the write end of the stdin pipe
    stdin_r,         \* the child holds the read end of the stdin pipe
    received,        \* bytes of the payload the child has read
    eof_seen,        \* the child has read end-of-input
    proc,            \* the child: "none", "running", "zombie", "reaped"
    exit_code,       \* the status the child ended with
    c_todo,          \* bytes the child still wants to write, by stream
    c_written,       \* bytes the child has written, by stream
    c_pipe,          \* bytes in the pipe of the stream, not yet read
    c_open,          \* the child holds its end of the stream
    c_buf,           \* buf of the drain thread of the stream
    thr,             \* the drain thread: "none", "reading", "returned"
    ret,             \* io::Result<Output> the call returned
    epipe,           \* write_all failed on a closed pipe
    exited_self,     \* the child exited without being killed
    killed,          \* child.kill() was called
    \* ---- the negotiation of goal and next action in main (lines 952-1099)
    npc,             \* "idle", "start", "skipped", "infer", "ask_goal",
                     \* "ask_next", "feedback", "refine", "manual_goal",
                     \* "manual_next", "finished", "aborted"
    template,        \* prompt_template.is_file()
    goal,            \* goal
    next_action,     \* next_action
    proposal,        \* proposal
    feedback,        \* feedback
    human_eof,       \* the terminal input of the human is at end-of-input
    last_line,       \* the latest line read from the human
    asked,           \* the questions put to the human in this round
    inference,       \* the inference calls made: how many, and the prompt
                     \* and the result of the latest
    \* ---- parse_goal_payload (lines 617-632)
    ppc,             \* "idle", "parse", "parsed"
    agent_text,      \* the output of the agent
    payload          \* Option<(String, String)>

cfg_vars  == <<iterations, max_seconds, sleep_secs, no_log, stop_token, runner,
               codex_json, runner_timeout>>
loop_vars == <<pc, i, elapsed, stop_reason, result, error, log_file, invoked,
               log_start, runs>>
read_vars == <<limit, child_todo, written, pipe, write_open, buf, chunk, rd>>
inv_vars  == <<child>>
run_vars  == <<rpc, input, timeout, capture, to_write, stdin_pipe, stdin_w,
               stdin_r, received, eof_seen, proc, exit_code, c_todo, c_written,
               c_pipe, c_open, c_buf, thr, ret, epipe, exited_self, killed>>
neg_vars  == <<npc, template, goal, next_action, proposal, feedback, human_eof,
               last_line, asked, inference>>
parse_vars == <<ppc, agent_text, payload>>
ext_vars  == <<inv_vars, run_vars, neg_vars, parse_vars>>
vars == <<cfg_vars, loop_vars, read_vars, ext_vars>>

----------------------------------------------------------------------------
\* Bounds of the model.

MaxIter == 3        \* largest args.iterations
MaxSeconds == 1     \* largest args.max_seconds
MaxTok == 2         \* longest stop token
MaxRuns == 2        \* runs of the program on one log file
MaxWrite == 4       \* most bytes a child writes to one stream

\* Program constants, scaled down.
CaptureCap == 2     \* 2 * 1024 * 1024, the limit of both capture threads
ChunkLen == 2       \* the 8192-byte chunk of read_with_limit
TicksPerSec == 2    \* resolution of the clock below one second

----------------------------------------------------------------------------
\* Byte strings.

Bytes == {"a", " ", "X", "R"}

Min(x, y) == IF x <= y THEN x ELSE y

SeqsUpTo(S, n) == UNION {[1..k -> S] : k \in 0..n}

Take(s, n) == SubSeq(s, 1, Min(Len(s), n))

\* String::from_utf8_lossy: every invalid byte becomes U+FFFD.
FromUtf8Lossy(bytes) ==
    [k \in DOMAIN bytes |-> IF bytes[k] = "X" THEN "R" ELSE bytes[k]]

\* str::contains with a str pattern.
StrContains(text, pat) ==
    \E k \in 0..(Len(text) - Len(pat)) : SubSeq(text, k + 1, k + Len(pat)) = pat

----------------------------------------------------------------------------
\* The agent invokers and the Output they return.

\* ExitStatus::code(): Some(n), or None when a signal ended the child.
NoCode == -1
ExitCodes == {0, 2, NoCode}

\* Faulty variant: every exit status counts as success.
SuccessAlways(status) == TRUE

\* ExitStatus::success()
Success(status) == status = 0

\* output.status.code().unwrap_or(1)
CodeOrOne(status) == IF status = NoCode THEN 1 ELSE status

NoResult == [tag |-> "none", status |-> 0, stdout |-> <<>>, stderr |-> <<>>]
ErrTimedOut == [tag |-> "timedout", status |-> 0, stdout |-> <<>>, stderr |-> <<>>]
ErrOther == [tag |-> "error", status |-> 0, stdout |-> <<>>, stderr |-> <<>>]

\* What a capture thread returns for a stream the child wrote `bytes` to:
\* read_with_limit(stream, 2 * 1024 * 1024).
Capture(bytes) == Take(bytes, CaptureCap)

\* run_process_with_timeout when the child exits in time: Ok(Output).
RunProcess(capture_stdout, capture_stderr, out, err, status) ==
    [tag |-> "ok",
     status |-> status,
     stdout |-> IF capture_stdout THEN Capture(out) ELSE <<>>,
     stderr |-> IF capture_stderr THEN Capture(err) ELSE <<>>]

\* The final-message file after the child ran.  write_temp_file creates it
\* empty; the child may fill it or remove it.
NoFile == [exists |-> FALSE, bytes |-> <<>>]
FileOf(bytes) == [exists |-> TRUE, bytes |-> bytes]

\* std::fs::read_to_string(..).is_ok(): the file is there and is UTF-8.
ReadToStringOk(file) ==
    file.exists /\ \A k \in DOMAIN file.bytes : file.bytes[k] # "X"

\* Faulty variant: no final message counts as blank.
TrimIsEmptyNever(text) == FALSE

\* message.trim().is_empty()
TrimIsEmpty(text) == \A k \in DOMAIN text : text[k] = " "

\* run_codex: stdout is captured unless --json; the final message, when it
\* can be read and is not blank, replaces the stdout of the Output.
RunCodex(out, err, status, file) ==
    LET output == RunProcess(~codex_json, TRUE, out, err, status)
    IN  IF ReadToStringOk(file) /\ ~TrimIsEmpty(file.bytes)
        THEN [output EXCEPT !.stdout = file.bytes]
        ELSE output

RunSdk(out, err, status) == RunProcess(TRUE, TRUE, out, err, status)

RunGeneric(out, err, status) == RunProcess(TRUE, TRUE, out, err, status)

\* The dispatch on the runner in main.
RunAgent(out, err, status, file) ==
    IF runner = "codex" THEN RunCodex(out, err, status, file)
    ELSE IF runner = "sdk" THEN RunSdk(out, err, status)
    ELSE RunGeneric(out, err, status)

----------------------------------------------------------------------------
\* The iteration loop of main.

None == "none"
MaxRuntimeReason == "reached max runtime"
TimedOutReason == "runner timed out"
TokenReason == "completion token detected"
MaxIterReason == "reached max iterations"
StopReasons == {MaxRuntimeReason, TimedOutReason, TokenReason, MaxIterReason}

NoError == [kind |-> "none", code |-> 0]
InvokeError == [kind |-> "invoke", code |-> 0]
ExitError(status) == [kind |-> "exit", code |-> CodeOrOne(status)]

\* start.elapsed(): the clock stops counting one second past the largest
\* budget, where no comparison of the program changes any more.
ElapsedCap == (MaxSeconds + 1) * TicksPerSec
Tick(t) == Min(t, ElapsedCap)

\* Duration::as_secs
AsSecs(ticks) == ticks \div TicksPerSec

\* Faulty variant: no error is recognised as a timeout.
IsTimedOutNever(r) == FALSE

\* err.kind() == io::ErrorKind::TimedOut
IsTimedOut(r) == r.tag = "timedout"

\* Faulty variant: the budget counts as spent only once it is exceeded.
BudgetSpentStrict == max_seconds > 0 /\ AsSecs(elapsed) > max_seconds

\* max_seconds > 0 && start.elapsed().as_secs() >= max_seconds
BudgetSpent == max_seconds > 0 /\ AsSecs(elapsed) >= max_seconds

\* Faulty variant: the token is looked for at the start of stdout only.
StopTokenAtStart(stdout) ==
    Take(FromUtf8Lossy(stdout), Len(stop_token)) = stop_token

\* stdout_text.contains(&stop_token), stdout_text the lossy decoding
StopTokenFound(stdout) == StrContains(FromUtf8Lossy(stdout), stop_token)

\* append_log: one record per call, appended.  The header line carries the
\* iteration, the [exit-code] line the status; the [stdout] and [stderr]
\* sections repeat the bytes of the Output and are left out.
\* Faulty variant: records numbered from zero.
LogRecordFromZero(iteration, status) ==
    [iteration |-> iteration - 1, exit_code |-> status]

LogRecord(iteration, status) == [iteration |-> iteration, exit_code |-> status]
\* Faulty variant: the log file is opened for writing from its start.
AppendLogTruncating(file, iteration, status) == <<LogRecord(iteration, status)>>

AppendLog(file, iteration, status) == Append(file, LogRecord(iteration, status))

\* The for loop takes its next index, then checks the runtime budget.
LoopHead ==
    /\ pc = "loop"
    /\ IF i + 1 > iterations
       THEN /\ pc' = "done"
            /\ UNCHANGED <<i, stop_reason>>
       ELSE /\ i' = i + 1
            /\ IF BudgetSpent
               THEN /\ stop_reason' = MaxRuntimeReason
                    /\ pc' = "done"
               ELSE /\ pc' = "invoke"
                    /\ UNCHANGED stop_reason
    /\ UNCHANGED <<elapsed, result, error, log_file, invoked, log_start, runs>>
    /\ UNCHANGED <<cfg_vars, read_vars, ext_vars>>

\* How long an invocation may take, in ticks.
Durations == {0, 1, 2}

\* What one invocation of the agent can come to: the result and its duration.
\* A child that is still running when runner_timeout ends gives TimedOut.
InvokeOutcomes(outs, errs, files) ==
    {<<RunAgent(o, e, s, f), d>> :
        o \in outs, e \in errs, s \in ExitCodes, f \in files,
        d \in {t \in Durations :
                 runner_timeout = 0 \/ t <= runner_timeout * TicksPerSec}}
    \cup {<<ErrOther, 0>>}
    \cup (IF runner_timeout > 0
          THEN {<<ErrTimedOut, runner_timeout * TicksPerSec>>}
          ELSE {})

\* run_codex / run_sdk / run_generic is called with the working prompt.
Invoke(outs, files) ==
    /\ pc = "invoke"
    /\ \E oc \in InvokeOutcomes(outs, {<<>>, stop_token}, files) :
          /\ result' = oc[1]
          /\ elapsed' = Tick(elapsed + oc[2])
    /\ invoked' = Append(invoked, i)
    /\ pc' = "match"
    /\ UNCHANGED <<i, stop_reason, error, log_file, log_start, runs>>
    /\ UNCHANGED <<cfg_vars, read_vars, ext_vars>>

\* The same call, for a child whose behaviour is known beforehand and that
\* exits in time.
NoChild == [out |-> <<>>, err |-> <<>>, status |-> 0, file |-> NoFile]

InvokeChild ==
    /\ pc = "invoke"
    /\ result' = RunAgent(child.out, child.err, child.status, child.file)
    /\ invoked' = Append(invoked, i)
    /\ pc' = "match"
    /\ UNCHANGED <<i, elapsed, stop_reason, error, log_file, log_start, runs>>
    /\ UNCHANGED <<cfg_vars, read_vars, ext_vars>>

\* The rest of the loop body: the match on the result, the log record, the
\* exit status, the stop token, the sleep.
Body ==
    /\ pc = "match"
    /\ IF IsTimedOut(result)
       THEN /\ stop_reason' = TimedOutReason
            /\ pc' = "done"
            /\ UNCHANGED <<error, log_file, elapsed>>
       ELSE IF result.tag = "error"
       THEN /\ error' = InvokeError
            /\ pc' = "failed"
            /\ UNCHANGED <<stop_reason, log_file, elapsed>>
       ELSE /\ log_file' = IF no_log THEN log_file
                           ELSE AppendLog(log_file, i, result.status)
            /\ IF ~Success(result.status)
               THEN /\ error' = ExitError(result.status)
                    /\ pc' = "failed"
                    /\ UNCHANGED <<stop_reason, elapsed>>
               ELSE IF StopTokenFound(result.stdout)
               THEN /\ stop_reason' = TokenReason
                    /\ pc' = "done"
                    /\ UNCHANGED <<error, elapsed>>
               ELSE IF i < iterations
               THEN /\ elapsed' = Tick(elapsed + sleep_secs * TicksPerSec)
                    /\ pc' = "loop"
                    /\ UNCHANGED <<error, stop_reason>>
               ELSE /\ stop_reason' = MaxIterReason
                    /\ pc' = "loop"
                    /\ UNCHANGED <<error, elapsed>>
    /\ result' = IF pc' = "loop" THEN NoResult ELSE result
    /\ UNCHANGED <<i, invoked, log_start, runs>>
    /\ UNCHANGED <<cfg_vars, read_vars, ext_vars>>

\* The program is started again on the same log file.
NewRun(configs) ==
    /\ pc \in {"done", "failed"}
    /\ runs < MaxRuns
    /\ \E c \in configs :
          /\ iterations' = c.iterations
          /\ max_seconds' = c.max_seconds
          /\ sleep_secs' = c.sleep_secs
          /\ no_log' = c.no_log
          /\ stop_token' = c.stop_token
          /\ runner' = c.runner
          /\ codex_json' = c.codex_json
          /\ runner_timeout' = c.runner_timeout
    /\ pc' = "loop"
    /\ i' = 0
    /\ elapsed' = 0
    /\ stop_reason' = None
    /\ result' = NoResult
    /\ error' = NoError
    /\ invoked' = <<>>
    /\ log_start' = Len(log_file)
    /\ runs' = runs + 1
    /\ UNCHANGED <<log_file, read_vars, ext_vars>>

----------------------------------------------------------------------------
\* read_with_limit draining the pipe of one captured stream.

Nul == "0"
DrainBytes == {"a", "X"}

\* Most bytes the pipe of the host holds before the child blocks.
PipeCap == 2

\* Faulty variant: a read asks for a whole chunk whatever room is left.
ReadSizeWholeChunk(len, lim) == ChunkLen

\* let read_size = chunk.len().min(remaining)
ReadSize(len, lim) == Min(ChunkLen, lim - len)

\* reader.read(&mut chunk[..read_size]) returning Ok(n): the first n bytes of
\* the pipe land in chunk[..n], the rest of chunk keeps what it held.
ReadInto(ch, bytes) ==
    [k \in DOMAIN ch |-> IF k <= Len(bytes) THEN bytes[k] ELSE ch[k]]

\* buf.extend_from_slice(&chunk[..n])
Extend(b, ch, n) == b \o SubSeq(ch, 1, n)

\* The child writes to its end of the pipe while the pipe has room.
ChildWrite ==
    /\ rd = "reading"
    /\ write_open
    /\ child_todo # <<>>
    /\ \E n \in 1..Min(Len(child_todo), PipeCap - Len(pipe)) :
          /\ pipe' = pipe \o SubSeq(child_todo, 1, n)
          /\ written' = written \o SubSeq(child_todo, 1, n)
          /\ child_todo' = SubSeq(child_todo, n + 1, Len(child_todo))
    /\ UNCHANGED <<limit, write_open, buf, chunk, rd>>
    /\ UNCHANGED <<cfg_vars, loop_vars, ext_vars>>

\* The child closes its end (it exits), or its write fails because the
\* reader has dropped the read end.
ChildClose ==
    /\ write_open
    /\ child_todo = <<>> \/ rd = "returned"
    /\ write_open' = FALSE
    /\ UNCHANGED <<limit, child_todo, written, pipe, buf, chunk, rd>>
    /\ UNCHANGED <<cfg_vars, loop_vars, ext_vars>>

\* One turn of the while loop: the test, the read, the match on its result.
\* A read of an empty pipe blocks while the child holds the write end, and
\* gives Ok(0) once the child has closed it.  Reads of the pipe do not fail:
\* the Err arm, which ends the loop as Ok(0) does, is not taken.
ReadStep ==
    /\ rd = "reading"
    /\ IF Len(buf) < limit
       THEN IF pipe # <<>>
            THEN \E n \in 1..Min(ReadSize(Len(buf), limit), Len(pipe)) :
                    /\ chunk' = ReadInto(chunk, SubSeq(pipe, 1, n))
                    /\ buf' = Extend(buf, chunk', n)
                    /\ pipe' = SubSeq(pipe, n + 1, Len(pipe))
                    /\ rd' = rd
            ELSE /\ ~write_open
                 /\ rd' = "returned"
                 /\ UNCHANGED <<buf, chunk, pipe>>
       ELSE /\ rd' = "returned"
            /\ UNCHANGED <<buf, chunk, pipe>>
    /\ UNCHANGED <<limit, child_todo, written, write_open>>
    /\ UNCHANGED <<cfg_vars, loop_vars, ext_vars>>

----------------------------------------------------------------------------
\* run_process_with_timeout: the runner, its child and the two drain threads.

Streams == {"out", "err"}

\* input: None
NoInput == -1

\* Most bytes of an input payload.
MaxPayload == 3

\* text.as_bytes().len() of the payload, 0 when there is none.
PayloadLen(inp) == IF inp = NoInput THEN 0 ELSE inp

\* Faulty variant: the wait is started with the input stream still open.
AfterWriteKeepOpen == "threads"

\* The pc after write_all has returned Ok: the if-let block ends, which
\* drops stdin (line 424).
AfterWriteOk == "close"

\* Faulty variant: the timed-out error is returned without reaping.
AfterKillNoReap == "returned"

\* The pc after child.kill(): child.wait() (line 446).
AfterKill == "reap"

\* cmd.spawn()? (line 418).  The child starts with the three ends of its
\* pipes open; a stream that is not captured is the null device.
Spawn ==
    /\ rpc = "spawn"
    /\ \E ok \in BOOLEAN :
          IF ok
          THEN /\ proc' = "running"
               /\ stdin_w' = TRUE
               /\ stdin_r' = TRUE
               /\ c_open' = [s \in Streams |-> TRUE]
               /\ rpc' = "write"
               /\ ret' = ret
          ELSE /\ rpc' = "returned"
               /\ ret' = ErrOther
               /\ UNCHANGED <<proc, stdin_w, stdin_r, c_open>>
    /\ UNCHANGED <<input, timeout, capture, to_write, stdin_pipe, received,
                   eof_seen, exit_code, c_todo, c_written, c_pipe, c_buf, thr,
                   epipe, exited_self, killed>>
    /\ UNCHANGED <<cfg_vars, loop_vars, read_vars, inv_vars, neg_vars, parse_vars>>

\* stdin.write_all(text.as_bytes())? (lines 420-423), one byte at a time.
\* With nothing left to write it returns Ok.  A write to a pipe whose read
\* end is closed fails with BrokenPipe, which `?` returns from the call:
\* stdin and the Child are dropped, the child is neither killed nor waited
\* for.  A write to a full pipe blocks.
WriteInput ==
    /\ rpc = "write"
    /\ IF to_write = 0
       THEN /\ rpc' = AfterWriteOk
            /\ UNCHANGED <<to_write, stdin_pipe, stdin_w, ret, epipe>>
       ELSE IF ~stdin_r
       THEN /\ epipe' = TRUE
            /\ ret' = ErrOther
            /\ stdin_w' = FALSE
            /\ rpc' = "returned"
            /\ UNCHANGED <<to_write, stdin_pipe>>
       ELSE /\ stdin_pipe < PipeCap
            /\ stdin_pipe' = stdin_pipe + 1
            /\ to_write' = to_write - 1
            /\ UNCHANGED <<rpc, stdin_w, ret, epipe>>
    /\ UNCHANGED <<input, timeout, capture, stdin_r, received, eof_seen, proc,
                   exit_code, c_todo, c_written, c_pipe, c_open, c_buf, thr,
                   exited_self, killed>>
    /\ UNCHANGED <<cfg_vars, loop_vars, read_vars, inv_vars, neg_vars, parse_vars>>

\* The end of the if-let block (line 424): stdin is dropped, which closes
\* the write end of the pipe, payload or not.
CloseInput ==
    /\ rpc = "close"
    /\ stdin_w' = FALSE
    /\ rpc' = "threads"
    /\ UNCHANGED <<input, timeout, capture, to_write, stdin_pipe, stdin_r,
                   received, eof_seen, proc, exit_code, c_todo, c_written,
                   c_pipe, c_open, c_buf, thr, ret, epipe, exited_self, killed>>
    /\ UNCHANGED <<cfg_vars, loop_vars, read_vars, inv_vars, neg_vars, parse_vars>>

\* thread::spawn of the two drain threads (lines 426-439), one for each
\* captured stream.
SpawnThreads ==
    /\ rpc = "threads"
    /\ thr' = [s \in Streams |-> IF capture[s] THEN "reading" ELSE "none"]
    /\ rpc' = "wait"
    /\ UNCHANGED <<input, timeout, capture, to_write, stdin_pipe, stdin_w,
                   stdin_r, received, eof_seen, proc, exit_code, c_todo,
                   c_written, c_pipe, c_open, c_buf, ret, epipe, exited_self,
                   killed>>
    /\ UNCHANGED <<cfg_vars, loop_vars, read_vars, inv_vars, neg_vars, parse_vars>>

\* child.wait_timeout(timeout) / child.wait() (lines 441-452).  A child that
\* has exited is reaped and its status taken; while it runs the call blocks,
\* until the timeout, if there is one, ends the wait with None.
Wait ==
    /\ rpc = "wait"
    /\ IF proc = "zombie"
       THEN /\ proc' = "reaped"
            /\ rpc' = "join_out"
       ELSE /\ timeout > 0
            /\ rpc' = "kill"
            /\ proc' = proc
    /\ UNCHANGED <<input, timeout, capture, to_write, stdin_pipe, stdin_w,
                   stdin_r, received, eof_seen, exit_code, c_todo, c_written,
                   c_pipe, c_open, c_buf, thr, ret, epipe, exited_self, killed>>
    /\ UNCHANGED <<cfg_vars, loop_vars, read_vars, inv_vars, neg_vars, parse_vars>>

\* let _ = child.kill() (line 445).  A running child ends by the signal and
\* its ends of the pipes close; a child that has just exited stays as it is.
Kill ==
    /\ rpc = "kill"
    /\ killed' = TRUE
    /\ IF proc = "running"
       THEN /\ proc' = "zombie"
            /\ exit_code' = NoCode
            /\ stdin_r' = FALSE
            /\ c_open' = [s \in Streams |-> FALSE]
       ELSE UNCHANGED <<proc, exit_code, stdin_r, c_open>>
    /\ rpc' = AfterKill
    /\ UNCHANGED <<input, timeout, capture, to_write, stdin_pipe, stdin_w,
                   received, eof_seen, c_todo, c_written, c_pipe, c_buf, thr,
                   ret, epipe, exited_self>>
    /\ UNCHANGED <<cfg_vars, loop_vars, read_vars, inv_vars, neg_vars, parse_vars>>

\* let _ = child.wait(); return Err(TimedOut) (lines 446-450).  The drain
\* threads are not joined; they go on reading by themselves.
Reap ==
    /\ rpc = "reap"
    /\ proc = "zombie"
    /\ proc' = "reaped"
    /\ ret' = ErrTimedOut
    /\ rpc' = "returned"
    /\ UNCHANGED <<input, timeout, capture, to_write, stdin_pipe, stdin_w,
                   stdin_r, received, eof_seen, exit_code, c_todo, c_written,
                   c_pipe, c_open, c_buf, thr, epipe, exited_self, killed>>
    /\ UNCHANGED <<cfg_vars, loop_vars, read_vars, inv_vars, neg_vars, parse_vars>>

\* Faulty variant: the result is built without waiting for the thread.
ThreadDoneAlways(s) == TRUE

\* handle.join() returns: there is no thread of stream s still reading.
ThreadDone(s) == thr[s] # "reading"

\* What handle.and_then(|h| h.join().ok()).unwrap_or_default() gives once
\* the thread of stream s, if there is one, has returned its buffer.
Joined(s) == IF thr[s] = "none" THEN <<>> ELSE c_buf[s]

\* stdout_handle ... join() (lines 454-456): blocks until the thread ends.
JoinOut ==
    /\ rpc = "join_out"
    /\ ThreadDone("out")
    /\ rpc' = "join_err"
    /\ UNCHANGED <<input, timeout, capture, to_write, stdin_pipe, stdin_w,
                   stdin_r, received, eof_seen, proc, exit_code, c_todo,
                   c_written, c_pipe, c_open, c_buf, thr, ret, epipe,
                   exited_self, killed>>
    /\ UNCHANGED <<cfg_vars, loop_vars, read_vars, inv_vars, neg_vars, parse_vars>>

\* stderr_handle ... join(), then Ok(Output { status, stdout, stderr })
\* (lines 457-464).
JoinErr ==
    /\ rpc = "join_err"
    /\ ThreadDone("err")
    /\ ret' = [tag |-> "ok", status |-> exit_code,
               stdout |-> Joined("out"), stderr |-> Joined("err")]
    /\ rpc' = "returned"
    /\ UNCHANGED <<input, timeout, capture, to_write, stdin_pipe, stdin_w,
                   stdin_r, received, eof_seen, proc, exit_code, c_todo,
                   c_written, c_pipe, c_open, c_buf, thr, epipe, exited_self,
                   killed>>
    /\ UNCHANGED <<cfg_vars, loop_vars, read_vars, inv_vars, neg_vars, parse_vars>>


\* One turn of read_with_limit(stream, 2 * 1024 * 1024) in the drain thread
\* of stream s: as ReadStep, on the pipe of that stream.
Drain(s) ==
    /\ thr[s] = "reading"
    /\ IF Len(c_buf[s]) < CaptureCap
       THEN IF c_pipe[s] # <<>>
            THEN \E n \in 1..Min(ReadSize(Len(c_buf[s]), CaptureCap), Len(c_pipe[s])) :
                    /\ c_buf' = [c_buf EXCEPT ![s] = @ \o SubSeq(c_pipe[s], 1, n)]
                    /\ c_pipe' = [c_pipe EXCEPT ![s] = SubSeq(@, n + 1, Len(@))]
                    /\ thr' = thr
            ELSE /\ ~c_open[s]
                 /\ thr' = [thr EXCEPT ![s] = "returned"]
                 /\ UNCHANGED <<c_buf, c_pipe>>
       ELSE /\ thr' = [thr EXCEPT ![s] = "returned"]
            /\ UNCHANGED <<c_buf, c_pipe>>
    /\ UNCHANGED <<rpc, input, timeout, capture, to_write, stdin_pipe, stdin_w,
                   stdin_r, received, eof_seen, proc, exit_code, c_todo,
                   c_written, c_open, ret, epipe, exited_self, killed>>
    /\ UNCHANGED <<cfg_vars, loop_vars, read_vars, inv_vars, neg_vars, parse_vars>>

\* The child reads a byte of its input.
ChildRead ==
    /\ proc = "running" /\ stdin_r
    /\ stdin_pipe > 0
    /\ stdin_pipe' = stdin_pipe - 1
    /\ received' = received + 1
    /\ UNCHANGED <<rpc, input, timeout, capture, to_write, stdin_w, stdin_r,
                   eof_seen, proc, exit_code, c_todo, c_written, c_pipe,
                   c_open, c_buf, thr, ret, epipe, exited_self, killed>>
    /\ UNCHANGED <<cfg_vars, loop_vars, read_vars, inv_vars, neg_vars, parse_vars>>

\* The child reads end-of-input: the pipe is empty and its write end closed.
ChildEof ==
    /\ proc = "running" /\ stdin_r
    /\ stdin_pipe = 0 /\ ~stdin_w /\ ~eof_seen
    /\ eof_seen' = TRUE
    /\ UNCHANGED <<rpc, input, timeout, capture, to_write, stdin_pipe, stdin_w,
                   stdin_r, received, proc, exit_code, c_todo, c_written,
                   c_pipe, c_open, c_buf, thr, ret, epipe, exited_self, killed>>
    /\ UNCHANGED <<cfg_vars, loop_vars, read_vars, inv_vars, neg_vars, parse_vars>>

\* The child closes its input without reading the rest.
ChildCloseInput ==
    /\ proc = "running" /\ stdin_r
    /\ stdin_r' = FALSE
    /\ UNCHANGED <<rpc, input, timeout, capture, to_write, stdin_pipe, stdin_w,
                   received, eof_seen, proc, exit_code, c_todo, c_written,
                   c_pipe, c_open, c_buf, thr, ret, epipe, exited_self, killed>>
    /\ UNCHANGED <<cfg_vars, loop_vars, read_vars, inv_vars, neg_vars, parse_vars>>

\* The child writes a byte to stream s: to the null device if the stream is
\* not captured, else to the pipe, where a write blocks while the pipe is
\* full and is not made once the drain thread has dropped the read end.
ChildOut(s) ==
    /\ proc = "running" /\ c_open[s]
    /\ c_todo[s] # <<>>
    /\ capture[s] => (Len(c_pipe[s]) < PipeCap /\ thr[s] # "returned")
    /\ c_written' = [c_written EXCEPT ![s] = Append(@, Head(c_todo[s]))]
    /\ c_pipe' = IF capture[s]
                 THEN [c_pipe EXCEPT ![s] = Append(@, Head(c_todo[s]))]
                 ELSE c_pipe
    /\ c_todo' = [c_todo EXCEPT ![s] = Tail(@)]
    /\ UNCHANGED <<rpc, input, timeout, capture, to_write, stdin_pipe, stdin_w,
                   stdin_r, received, eof_seen, proc, exit_code, c_open, c_buf,
                   thr, ret, epipe, exited_self, killed>>
    /\ UNCHANGED <<cfg_vars, loop_vars, read_vars, inv_vars, neg_vars, parse_vars>>

\* The child exits by itself, at any point, with any status; its ends of the
\* pipes close.
ChildExit ==
    /\ proc = "running"
    /\ proc' = "zombie"
    /\ exit_code' \in ExitCodes
    /\ exited_self' = TRUE
    /\ stdin_r' = FALSE
    /\ c_open' = [s \in Streams |-> FALSE]
    /\ UNCHANGED <<rpc, input, timeout, capture, to_write, stdin_pipe, stdin_w,
                   received, eof_seen, c_todo, c_written, c_pipe, c_buf, thr,
                   ret, epipe, killed>>
    /\ UNCHANGED <<cfg_vars, loop_vars, read_vars, inv_vars, neg_vars, parse_vars>>

\* A step of the thread that made the call.
RunnerStep ==
    \/ Spawn \/ WriteInput \/ CloseInput \/ SpawnThreads \/ Wait \/ Kill
    \/ Reap \/ JoinOut \/ JoinErr

\* A step of the child.
ChildStep ==
    \/ ChildRead \/ ChildEof \/ ChildCloseInput \/ ChildExit
    \/ \E s \in Streams : ChildOut(s)

----------------------------------------------------------------------------
\* The negotiation of goal and next action.

\* Option<(String, String)>: None
NoProposal == <<>>

\* let mut input = String::new(): nothing read yet.  A read at end-of-input
\* leaves it so too, every line that is read has at least its "\n".
NoLine == <<>>

\* What the human may type as one line, with the line end.
HumanLines ==
    {<<"y", "\n">>, <<"Y", "e", "S", "\n">>, <<" ", "y", "e", "s", " ", "\n">>,
     <<"y", "e", "\n">>, <<"y", " ", "\n">>, <<"n", "o">>, <<" ", "\n">>, <<"\n">>}

\* io::stdin().read_line(&mut input): a line, or nothing at end-of-input;
\* input that has ended stays ended.  The line is valid UTF-8.
ReadLine == IF human_eof THEN {NoLine} ELSE HumanLines \cup {NoLine}

IsSpace(u) == u \in {" ", "\n"}

\* str::trim
TrimStr(str) ==
    LET keep == {k \in DOMAIN str : ~IsSpace(str[k])}
    IN  IF keep = {} THEN <<>>
        ELSE SubSeq(str, CHOOSE k \in keep : \A m \in keep : k <= m,
                         CHOOSE k \in keep : \A m \in keep : k >= m)

\* str::to_lowercase
ToLower(str) ==
    [k \in DOMAIN str |->
        CASE str[k] = "Y" -> "y" [] str[k] = "E" -> "e" [] str[k] = "S" -> "s"
          [] OTHER -> str[k]]

\* Faulty variant: the answer is compared as it was typed.
IsYesAsTyped(line) == line \in {<<"y", "\n">>, <<"y", "e", "s", "\n">>}

\* prompt_yes_no: false at end-of-input, else whether the trimmed lowercased
\* line is "y" or "yes".
IsYes(line) ==
    IF Len(line) = 0 THEN FALSE
    ELSE ToLower(TrimStr(line)) \in {<<"y">>, <<"y", "e", "s">>}

\* Faulty variant: a prompt for free text returns at end-of-input.
AcceptedAtEnd(line) == line = NoLine \/ TrimStr(line) # <<>>

\* Faulty variant: a prompt for free text takes an empty line as well.
AcceptedAny(line) == TRUE

\* if !trimmed.is_empty() { return Ok(trimmed.to_string()) } in
\* prompt_for_goal, prompt_for_next_action and prompt_for_feedback.
Accepted(line) == TrimStr(line) # <<>>

\* What an inference call gives: Err(e) of run_codex or run_sdk (the call
\* timed out, or the child could not be started or fed), or Ok of what
\* parse_goal_payload makes of the stdout of a child that exited with
\* `status`, which infer_goal_with_codex and infer_goal_with_sdk do not look
\* at: None, or Some(pair) with the two non-empty trimmed strings
\* parse_goal_payload lets through.
Proposals == {<<<<"g">>, <<"a">>>>, <<<<"g", "g">>, <<"a", " ", "a">>>>}
InferErr(tag) == [ok |-> FALSE, tag |-> tag, status |-> 0, pair |-> NoProposal]
InferOutcomes ==
    {InferErr(tag) : tag \in {"timedout", "error"}}
    \cup {[ok |-> TRUE, tag |-> "output", status |-> s, pair |-> q] :
            s \in {0, 1}, q \in {NoProposal} \cup Proposals}

\* Faulty variant: the previous proposal is left out of the prompt.
BuildInferencePromptBare(note, previous) ==
    [feedback |-> note, previous |-> NoProposal]

\* build_inference_prompt: what the prompt holds next to its fixed text and
\* the context; None is <<>> for the feedback and NoProposal for the
\* previous proposal.
BuildInferencePrompt(note, previous) ==
    [feedback |-> note, previous |-> previous]

\* No inference call was made yet.
NoInference ==
    [n |-> 0, prompt |-> BuildInferencePrompt(<<>>, NoProposal),
     result |-> InferErr("none")]

\* Most inference calls of one negotiation.
MaxInfer == 3

\* Faulty variant: a field counts as unset whatever it holds.
IsEmptyAlways(str) == TRUE

\* goal.is_empty(), next_action.is_empty() where main decides whether to
\* put a question or a prompt to the human (lines 1044, 1050, 1089, 1092).
IsEmpty(str) == str = <<>>

\* The proposal main falls back on: "Bootstrap {repo_name} with ...",
\* "Draft PRD and create initial tasks in Linear."
Fallback == <<<<"B">>, <<"D">>>>

\* main lines 997-1010: the negotiation is entered when there is no prompt
\* template and goal or next action is missing; ensure_runner and
\* prepare_inference_context may fail.
NegStart ==
    /\ npc = "start"
    /\ IF ~template /\ (goal = <<>> \/ next_action = <<>>)
       THEN \E ok \in BOOLEAN : npc' = IF ok THEN "infer" ELSE "aborted"
       ELSE npc' = "skipped"
    /\ UNCHANGED <<template, goal, next_action, proposal, feedback, human_eof,
                   last_line, asked>>
    /\ UNCHANGED inference
    /\ UNCHANGED <<cfg_vars, loop_vars, read_vars, inv_vars, run_vars, parse_vars>>

\* The first inference (lines 1011-1041): infer_goal_with_..(..)? and
\* unwrap_or_else with the fallback proposal.
Infer ==
    /\ npc = "infer"
    /\ \E r \in InferOutcomes :
          /\ inference' = [n |-> inference.n + 1,
                            prompt |-> BuildInferencePrompt(<<>>, NoProposal),
                            result |-> r]
          /\ IF ~r.ok
             THEN npc' = "aborted" /\ proposal' = proposal
             ELSE /\ proposal' = IF r.pair = NoProposal THEN Fallback ELSE r.pair
                  /\ npc' = "ask_goal"
    /\ asked' = <<>>
    /\ UNCHANGED <<template, goal, next_action, feedback, human_eof, last_line>>
    /\ UNCHANGED <<cfg_vars, loop_vars, read_vars, inv_vars, run_vars, parse_vars>>

\* Lines 1044-1049: the question about the goal, if the goal is empty.
AskGoal ==
    /\ npc = "ask_goal"
    /\ IF IsEmpty(goal)
       THEN \E line \in ReadLine :
               /\ last_line' = line
               /\ human_eof' = (line = NoLine)
               /\ goal' = IF IsYes(line) THEN proposal[1] ELSE goal
               /\ asked' = Append(asked, "goal")
       ELSE UNCHANGED <<last_line, human_eof, goal, asked>>
    /\ npc' = "ask_next"
    /\ UNCHANGED <<template, next_action, proposal, feedback>>
    /\ UNCHANGED inference
    /\ UNCHANGED <<cfg_vars, loop_vars, read_vars, inv_vars, run_vars, parse_vars>>

\* Lines 1050-1059: the question about the next action, if that is empty,
\* and the test that ends the loop when both are set.
AskNext ==
    /\ npc = "ask_next"
    /\ IF IsEmpty(next_action)
       THEN \E line \in ReadLine :
               /\ last_line' = line
               /\ human_eof' = (line = NoLine)
               /\ next_action' = IF IsYes(line) THEN proposal[2] ELSE next_action
               /\ asked' = Append(asked, "next_action")
       ELSE UNCHANGED <<last_line, human_eof, next_action, asked>>
    /\ npc' = IF goal # <<>> /\ next_action' # <<>> THEN "finished" ELSE "feedback"
    /\ UNCHANGED <<template, goal, proposal, feedback>>
    /\ UNCHANGED inference
    /\ UNCHANGED <<cfg_vars, loop_vars, read_vars, inv_vars, run_vars, parse_vars>>

\* One turn of the loop of prompt_for_feedback (lines 602-615).
Feedback ==
    /\ npc = "feedback"
    /\ \E line \in ReadLine :
          /\ last_line' = line
          /\ human_eof' = (line = NoLine)
          /\ IF Accepted(line)
             THEN feedback' = TrimStr(line) /\ npc' = "refine"
             ELSE UNCHANGED <<feedback, npc>>
    /\ UNCHANGED <<template, goal, next_action, proposal, asked>>
    /\ UNCHANGED inference
    /\ UNCHANGED <<cfg_vars, loop_vars, read_vars, inv_vars, run_vars, parse_vars>>

\* The refining inference and the match on it (lines 1061-1098): a new
\* proposal starts the next round, none sends the human to manual entry.
\* A negotiation is followed up to its MaxInfer-th inference call.
Refine ==
    /\ npc = "refine"
    /\ inference.n < MaxInfer
    /\ \E r \in InferOutcomes :
          /\ inference' = [n |-> inference.n + 1,
                            prompt |-> BuildInferencePrompt(feedback, proposal),
                            result |-> r]
          /\ IF ~r.ok
             THEN npc' = "aborted" /\ UNCHANGED <<proposal, asked>>
             ELSE IF r.pair = NoProposal
             THEN npc' = "manual_goal" /\ UNCHANGED <<proposal, asked>>
             ELSE proposal' = r.pair /\ asked' = <<>> /\ npc' = "ask_goal"
    /\ UNCHANGED <<template, goal, next_action, feedback, human_eof, last_line>>
    /\ UNCHANGED <<cfg_vars, loop_vars, read_vars, inv_vars, run_vars, parse_vars>>

\* if goal.is_empty() { goal = prompt_for_goal(repo_name)? } (lines
\* 1089-1091), one turn of the loop of prompt_for_goal (lines 88-103).
ManualGoal ==
    /\ npc = "manual_goal"
    /\ IF IsEmpty(goal)
       THEN \E line \in ReadLine :
               /\ last_line' = line
               /\ human_eof' = (line = NoLine)
               /\ IF Accepted(line)
                  THEN goal' = TrimStr(line) /\ npc' = "manual_next"
                  ELSE UNCHANGED <<goal, npc>>
       ELSE npc' = "manual_next" /\ UNCHANGED <<last_line, human_eof, goal>>
    /\ UNCHANGED <<template, next_action, proposal, feedback, asked>>
    /\ UNCHANGED inference
    /\ UNCHANGED <<cfg_vars, loop_vars, read_vars, inv_vars, run_vars, parse_vars>>

\* if next_action.is_empty() { next_action = prompt_for_next_action()? };
\* break (lines 1092-1095), one turn of the loop of prompt_for_next_action
\* (lines 105-118).
ManualNext ==
    /\ npc = "manual_next"
    /\ IF IsEmpty(next_action)
       THEN \E line \in ReadLine :
               /\ last_line' = line
               /\ human_eof' = (line = NoLine)
               /\ IF Accepted(line)
                  THEN next_action' = TrimStr(line) /\ npc' = "finished"
                  ELSE UNCHANGED <<next_action, npc>>
       ELSE npc' = "finished" /\ UNCHANGED <<last_line, human_eof, next_action>>
    /\ UNCHANGED <<template, goal, proposal, feedback, asked>>
    /\ UNCHANGED inference
    /\ UNCHANGED <<cfg_vars, loop_vars, read_vars, inv_vars, run_vars, parse_vars>>

----------------------------------------------------------------------------
\* extract_json_block and parse_goal_payload.
\*
\* The output of the agent is a sequence of units: " " and "\n" are white
\* space, "w" is a character of prose, "F" is the fence marker ``` taken as
\* one unit, "{" and "}" are the braces, and a member unit is one member of
\* a JSON object, "key": value, with the comma that separates it from the
\* next.  The first letter of a member unit is its key (U ultimate_goal,
\* G goal, A next_action), the second the kind of its value (s a string
\* with text in it, b a string of white space only, n not a string).

MemberUnits == {"Us", "Ub", "Un", "Gs", "As", "Ab", "An"}

KeyOf(unit) ==
    CASE unit \in {"Us", "Ub", "Un"} -> "ultimate_goal"
      [] unit \in {"Gs"} -> "goal"
      [] OTHER -> "next_action"

\* v.as_str().is_some()
IsString(unit) == unit \in {"Us", "Ub", "Gs", "As", "Ab"}

\* The string a member unit has as its value.
StrVal(unit) ==
    CASE unit = "Us" -> <<" ", "u", "\n">>
      [] unit = "Gs" -> <<"g">>
      [] unit = "As" -> <<"a", " ", "a", " ">>
      [] OTHER -> <<" ">>

\* str::trim_start
TrimStart(str) ==
    LET keep == {k \in DOMAIN str : ~IsSpace(str[k])}
    IN  IF keep = {} THEN <<>>
        ELSE SubSeq(str, CHOOSE k \in keep : \A m \in keep : k <= m, Len(str))

\* str::lines
RECURSIVE SplitLines(_)
SplitLines(str) ==
    IF str = <<>> THEN <<>>
    ELSE LET ends == {k \in DOMAIN str : str[k] = "\n"}
         IN  IF ends = {} THEN <<str>>
             ELSE LET e == CHOOSE k \in ends : \A m \in ends : k <= m
                  IN  <<SubSeq(str, 1, e - 1)>>
                          \o SplitLines(SubSeq(str, e + 1, Len(str)))

\* Faulty variant: the body runs to the end of the output, past the line
\* that closes the block.
RECURSIVE FenceBodyToEnd(_)
FenceBodyToEnd(lines) ==
    IF lines = <<>> THEN <<>>
    ELSE Head(lines) \o <<"\n">> \o FenceBodyToEnd(Tail(lines))

\* The for loop of extract_json_block (lines 582-588): the lines up to the
\* first one that starts, after white space, with the fence marker.
RECURSIVE FenceBody(_)
FenceBody(lines) ==
    IF lines = <<>> THEN <<>>
    ELSE IF LET l == TrimStart(Head(lines)) IN l # <<>> /\ l[1] = "F"
    THEN <<>>
    ELSE Head(lines) \o <<"\n">> \o FenceBody(Tail(lines))

\* extract_json_block; None is <<>>, which no Some(..) it returns equals.
ExtractJsonBlock(str) ==
    LET trimmed == TrimStr(str)
        body == IF trimmed # <<>> /\ trimmed[1] = "F"
                THEN TrimStr(FenceBody(Tail(SplitLines(trimmed))))
                ELSE <<>>
        opens == {k \in DOMAIN trimmed : trimmed[k] = "{"}
        closes == {k \in DOMAIN trimmed : trimmed[k] = "}"}
    IN  IF body # <<>> THEN body
        ELSE IF opens = {} \/ closes = {} THEN <<>>
        ELSE LET start == CHOOSE k \in opens : \A m \in opens : k <= m
                 end == CHOOSE k \in closes : \A m \in closes : k >= m
             IN  IF end <= start THEN <<>> ELSE SubSeq(trimmed, start, end)

\* Most members of a JSON object in the output of the agent.
MaxMembers == 3

\* serde_json::from_str::<Value>(&candidate).ok(), as far as value.get(key)
\* can tell: the members of the object when the candidate is one JSON
\* object, with white space anywhere between its tokens, and no value that
\* has members (ok false) when it is anything else.
ParseJson(candidate) ==
    LET toks == SelectSeq(candidate, LAMBDA u : ~IsSpace(u))
        n == Len(toks)
    IN  IF /\ n >= 2 /\ toks[1] = "{" /\ toks[n] = "}"
           /\ \A k \in 2..(n - 1) : toks[k] \in MemberUnits
        THEN [ok |-> TRUE, members |-> SubSeq(toks, 2, n - 1)]
        ELSE [ok |-> FALSE, members |-> <<>>]

\* value.get(key): the member of that key, the last one if there are
\* several; <<>> when there is none.
Get(members, key) ==
    LET at == {k \in DOMAIN members : KeyOf(members[k]) = key}
    IN  IF at = {} THEN <<>>
        ELSE <<members[CHOOSE k \in at : \A m \in at : k >= m]>>

\* Faulty variant: a value that is not a string is taken as text.
FieldAnyValue(got) ==
    IF got = <<>> THEN <<>>
    ELSE IF ~IsString(got[1]) THEN <<"0">>
    ELSE TrimStr(StrVal(got[1]))

\* Faulty variant: the text of a string is taken as it stands, neither
\* trimmed nor dropped when nothing is left of it.
FieldUntrimmed(got) ==
    IF got = <<>> THEN <<>>
    ELSE IF ~IsString(got[1]) THEN <<>>
    ELSE StrVal(got[1])

\* .and_then(|v| v.as_str()).map(|s| s.trim().to_string())
\* .filter(|s| !s.is_empty()); None is <<>>.
Field(got) ==
    IF got = <<>> THEN <<>>
    ELSE IF ~IsString(got[1]) THEN <<>>
    ELSE TrimStr(StrVal(got[1]))

\* parse_goal_payload
ParseGoalPayload(output) ==
    LET candidate == ExtractJsonBlock(output)
        value == ParseJson(candidate)
        first == Get(value.members, "ultimate_goal")
        ultimate == Field(IF first # <<>> THEN first
                          ELSE Get(value.members, "goal"))
        next == Field(Get(value.members, "next_action"))
    IN  IF candidate = <<>> \/ ~value.ok THEN NoProposal
        ELSE IF ultimate = <<>> \/ next = <<>> THEN NoProposal
        ELSE <<ultimate, next>>

\* parse_goal_payload(&stdout) is called on the output of the agent.
Parse ==
    /\ ppc = "parse"
    /\ payload' = ParseGoalPayload(agent_text)
    /\ ppc' = "parsed"
    /\ UNCHANGED agent_text
    /\ UNCHANGED <<cfg_vars, loop_vars, read_vars, inv_vars, run_vars, neg_vars>>

\* parse_goal_payload(&stdout) called once more on the same output.
Reparse ==
    /\ ppc = "parsed"
    /\ payload' = ParseGoalPayload(agent_text)
    /\ ppc' = "reparsed"
    /\ UNCHANGED agent_text
    /\ UNCHANGED <<cfg_vars, loop_vars, read_vars, inv_vars, run_vars, neg_vars>>

----------------------------------------------------------------------------
\* Initial states and specifications.

Runners == {"codex", "sdk", "generic"}
Tokens == SeqsUpTo(Bytes \ {" ", "X"}, MaxTok)

ConfigIs(c) ==
    /\ iterations = c.iterations
    /\ max_seconds = c.max_seconds
    /\ sleep_secs = c.sleep_secs
    /\ no_log = c.no_log
    /\ stop_token = c.stop_token
    /\ runner = c.runner
    /\ codex_json = c.codex_json
    /\ runner_timeout = c.runner_timeout

LoopIdle ==
    /\ pc = "loop"
    /\ i = 0
    /\ elapsed = 0
    /\ stop_reason = None
    /\ result = NoResult
    /\ error = NoError
    /\ log_file = <<>>
    /\ invoked = <<>>
    /\ log_start = 0
    /\ runs = 1

ReadIdle ==
    /\ limit = 0
    /\ child_todo = <<>>
    /\ written = <<>>
    /\ pipe = <<>>
    /\ write_open = FALSE
    /\ buf = <<>>
    /\ chunk = <<>>
    /\ rd = "idle"

InvokerIdle == child = NoChild

RunnerIdle ==
    /\ rpc = "idle" /\ input = NoInput /\ timeout = 0
    /\ capture = [s \in Streams |-> FALSE]
    /\ to_write = 0 /\ stdin_pipe = 0 /\ stdin_w = FALSE /\ stdin_r = FALSE
    /\ received = 0 /\ eof_seen = FALSE
    /\ proc = "none" /\ exit_code = 0
    /\ c_todo = [s \in Streams |-> <<>>]
    /\ c_written = [s \in Streams |-> <<>>]
    /\ c_pipe = [s \in Streams |-> <<>>]
    /\ c_open = [s \in Streams |-> FALSE]
    /\ c_buf = [s \in Streams |-> <<>>]
    /\ thr = [s \in Streams |-> "none"]
    /\ ret = NoResult
    /\ epipe = FALSE /\ exited_self = FALSE /\ killed = FALSE

NegIdle ==
    /\ npc = "idle" /\ template = TRUE
    /\ goal = <<>> /\ next_action = <<>>
    /\ proposal = NoProposal /\ feedback = <<>>
    /\ human_eof = FALSE /\ last_line = NoLine /\ asked = <<>>
    /\ inference = NoInference

ParseIdle == ppc = "idle" /\ agent_text = <<>> /\ payload = NoProposal

ExtIdle == InvokerIdle /\ RunnerIdle /\ NegIdle /\ ParseIdle

\* The iteration loop under every loop setting.
LoopConfigs ==
    [iterations : 0..MaxIter, max_seconds : 0..MaxSeconds, sleep_secs : {0, 1},
     no_log : BOOLEAN, stop_token : {<<>>, <<"a">>}, runner : {"codex", "generic"},
     codex_json : {TRUE}, runner_timeout : {0, 1}]
LoopOuts == {<<>>, <<" ">>, <<" ", "a">>, <<"a", " ", "a">>}
LoopFiles == {FileOf(<<>>)}

Init == (\E c \in LoopConfigs : ConfigIs(c)) /\ LoopIdle /\ ReadIdle /\ ExtIdle
Next == LoopHead \/ Invoke(LoopOuts, LoopFiles) \/ Body
Spec == Init /\ [][Next]_vars

\* The iteration loop under every runner and stop token.
AgentConfigs ==
    [iterations : {1, 2}, max_seconds : {0}, sleep_secs : {0},
     no_log : {FALSE}, stop_token : Tokens, runner : Runners,
     codex_json : BOOLEAN, runner_timeout : {0}]
AgentOuts == SeqsUpTo(Bytes \ {" "}, CaptureCap + 1)
AgentFiles ==
    {NoFile, FileOf(<<"X">>)}
        \cup {FileOf(b) : b \in SeqsUpTo({"a", " "}, CaptureCap + 1)}

InitAgent == (\E c \in AgentConfigs : ConfigIs(c)) /\ LoopIdle /\ ReadIdle /\ ExtIdle
NextAgent == LoopHead \/ Invoke(AgentOuts, AgentFiles) \/ Body
SpecAgent == InitAgent /\ [][NextAgent]_vars

\* Several runs of the program on the same log file.
RunsConfigs ==
    [iterations : 0..MaxIter, max_seconds : {0}, sleep_secs : {0},
     no_log : BOOLEAN, stop_token : {<<"a">>}, runner : {"generic"},
     codex_json : {TRUE}, runner_timeout : {0, 1}]

InitRuns == (\E c \in RunsConfigs : ConfigIs(c)) /\ LoopIdle /\ ReadIdle /\ ExtIdle
NextRuns ==
    LoopHead \/ Invoke(LoopOuts, LoopFiles) \/ Body \/ NewRun(RunsConfigs)
SpecRuns == InitRuns /\ [][NextRuns]_vars

\* read_with_limit on a pipe, for every limit and every child.
InitDrain ==
    /\ limit \in 0..MaxWrite
    /\ child_todo \in SeqsUpTo(DrainBytes, MaxWrite)
    /\ written = <<>>
    /\ pipe = <<>>
    /\ write_open = TRUE
    /\ buf = <<>>
    /\ chunk = [k \in 1..ChunkLen |-> Nul]
    /\ rd = "reading"
    /\ ConfigIs(CHOOSE c \in LoopConfigs : TRUE)
    /\ LoopIdle
    /\ ExtIdle
NextDrain == ChildWrite \/ ChildClose \/ ReadStep
SpecDrain == InitDrain /\ [][NextDrain]_vars

\* One call of an invoker, for every runner and every child that exits.
InvokerConfigs ==
    [iterations : {1}, max_seconds : {0}, sleep_secs : {0}, no_log : {FALSE},
     stop_token : {<<"a">>}, runner : Runners, codex_json : BOOLEAN,
     runner_timeout : {0}]
Children ==
    [out : SeqsUpTo({"a", "X"}, CaptureCap + 1),
     err : {<<>>, <<"a", "a", "a">>},
     status : ExitCodes,
     file : AgentFiles]

InitInvoker ==
    /\ \E c \in InvokerConfigs : ConfigIs(c)
    /\ LoopIdle /\ ReadIdle
    /\ child \in Children
    /\ RunnerIdle /\ NegIdle /\ ParseIdle
NextInvoker == LoopHead \/ InvokeChild \/ Body
SpecInvoker == InitInvoker /\ [][NextInvoker]_vars

\* One call of run_process_with_timeout, for every payload, with and without
\* a timeout, and every child.
RunnerTodo == [out : {<<>>, <<"a", "X", "a">>}, err : {<<>>, <<"X">>}]

InitRunner ==
    /\ rpc = "spawn"
    /\ input \in {NoInput} \cup 0..MaxPayload
    /\ to_write = PayloadLen(input)
    /\ timeout \in {0, 1}
    /\ capture \in [out : BOOLEAN, err : {TRUE}]
    /\ c_todo \in RunnerTodo
    /\ stdin_pipe = 0 /\ stdin_w = FALSE /\ stdin_r = FALSE
    /\ received = 0 /\ eof_seen = FALSE
    /\ proc = "none" /\ exit_code = 0
    /\ c_written = [s \in Streams |-> <<>>]
    /\ c_pipe = [s \in Streams |-> <<>>]
    /\ c_open = [s \in Streams |-> FALSE]
    /\ c_buf = [s \in Streams |-> <<>>]
    /\ thr = [s \in Streams |-> "none"]
    /\ ret = NoResult
    /\ epipe = FALSE /\ exited_self = FALSE /\ killed = FALSE
    /\ ConfigIs(CHOOSE c \in LoopConfigs : TRUE)
    /\ LoopIdle /\ ReadIdle
    /\ InvokerIdle /\ NegIdle /\ ParseIdle
NextRunner == RunnerStep \/ ChildStep \/ \E s \in Streams : Drain(s)
SpecRunner == InitRunner /\ [][NextRunner]_vars

\* The same, where the host runs every thread that can take a step and the
\* timer of wait_timeout runs out; the child owes nothing.
SpecRunnerFair ==
    /\ SpecRunner
    /\ WF_vars(RunnerStep)
    /\ \A s \in Streams : WF_vars(Drain(s))

\* The same, where the host runs the thread of the call, and the child
\* goes on reading its input while there is something to read.
SpecRunnerReads ==
    /\ SpecRunner
    /\ WF_vars(RunnerStep)
    /\ WF_vars(ChildRead \/ ChildEof)

\* The negotiation, for every command line and every human.
InitNeg ==
    /\ npc = "start"
    /\ template \in BOOLEAN
    /\ goal \in {<<>>, <<"c">>, <<" ">>}
    /\ next_action \in {<<>>, <<"c">>}
    /\ proposal = NoProposal /\ feedback = <<>>
    /\ human_eof = FALSE /\ last_line = NoLine /\ asked = <<>>
    /\ inference = NoInference
    /\ ConfigIs(CHOOSE c \in LoopConfigs : TRUE)
    /\ LoopIdle /\ ReadIdle
    /\ InvokerIdle /\ RunnerIdle /\ ParseIdle
NextNeg ==
    \/ NegStart \/ Infer \/ AskGoal \/ AskNext \/ Feedback \/ Refine
    \/ ManualGoal \/ ManualNext
SpecNeg == InitNeg /\ [][NextNeg]_vars

\* parse_goal_payload on every output made of an opening, an object that
\* may lack a brace or hold prose, and a closing.
InitParse ==
    /\ ppc = "parse"
    /\ \E pre \in {<<>>, <<"w", " ">>, <<"F", "w", "\n">>, <<" ", "F", "\n", " ">>},
          open \in {<<>>, <<"{">>},
          ms \in SeqsUpTo(MemberUnits, MaxMembers),
          junk \in {<<>>, <<"w">>},
          close \in {<<>>, <<"}">>},
          post \in {<<>>, <<"\n", "F">>, <<"\n", " ", "F", "\n", "w">>} :
          agent_text = pre \o open \o ms \o junk \o close \o post
    /\ payload = NoProposal
    /\ ConfigIs(CHOOSE c \in LoopConfigs : TRUE)
    /\ LoopIdle /\ ReadIdle
    /\ InvokerIdle /\ RunnerIdle /\ NegIdle
NextParse == Parse
SpecParse == InitParse /\ [][NextParse]_vars

\* Most units of the output before, and most after, its object.
MaxAround == 2

\* parse_goal_payload, twice, on every output that has any few units before
\* and after an object with both fields, an object whose ultimate_goal is
\* white space, or nothing.
InitExtract ==
    /\ ppc = "parse"
    /\ \E pre \in SeqsUpTo({"F", "\n", " ", "w", "{", "}"}, MaxAround),
          core \in {<<"{", "Us", "As", "}">>, <<"{", "Ub", "As", "}">>, <<>>},
          post \in SeqsUpTo({"F", "\n", " ", "w", "{", "}"}, MaxAround) :
          agent_text = pre \o core \o post
    /\ payload = NoProposal
    /\ ConfigIs(CHOOSE c \in LoopConfigs : TRUE)
    /\ LoopIdle /\ ReadIdle
    /\ InvokerIdle /\ RunnerIdle /\ NegIdle
NextExtract == Parse \/ Reparse
SpecExtract == InitExtract /\ [][NextExtract]_vars

\* A child that writes all its output before it reads its input to the end
\* and then exits; a write to a pipe whose drain thread has returned ends
\* it at once (SIGPIPE).
OutFirstStep ==
    \/ \E s \in Streams : ChildOut(s)
    \/ /\ \A s \in Streams : c_todo[s] = <<>>
       /\ ChildRead \/ ChildEof
    \/ /\ \/ eof_seen /\ \A s \in Streams : c_todo[s] = <<>>
          \/ \E s \in Streams :
                c_todo[s] # <<>> /\ capture[s] /\ thr[s] = "returned"
       /\ ChildExit

\* One call of run_process_with_timeout with such a child, where the host
\* runs every thread and the child whenever one of them can take a step.
NextOutFirst == RunnerStep \/ OutFirstStep \/ \E s \in Streams : Drain(s)
SpecOutFirst ==
    /\ InitRunner /\ [][NextOutFirst]_vars
    /\ WF_vars(RunnerStep) /\ WF_vars(OutFirstStep)
    /\ \A s \in Streams : WF_vars(Drain(s))

----------------------------------------------------------------------------
\* Properties.

\* The runtime budget in ticks.
Budget == max_seconds * TicksPerSec

\* The indices 1..n in order.
UpTo(n) == [k \in 1..n |-> k]

\* tok occurs in text as a contiguous run of units.
Occurs(tok, text) ==
    \E a \in 0..Len(text) : \E b \in a..Len(text) : SubSeq(text, a + 1, b) = tok

\* A run of the program has ended.
Ended == pc \in {"done", "failed"}

\* C1: whenever the loop is left without a fatal error exactly one stop
\* reason out of the four is recorded, and whenever it is left by a fatal
\* error none is.  Fails: with iterations = 0 the loop is left normally and
\* nothing is recorded.
C1_ExactlyOneStopReason ==
    /\ pc = "done" => stop_reason \in StopReasons
    /\ pc = "failed" => stop_reason = None

\* C2: a non-zero exit on iteration k ends the run in failed with that exit
\* code and no stop reason, nothing is invoked after it, indices 1..k were
\* each invoked once, and with logging on the log holds exactly k records
\* more than when the run began, the k-th being the failing iteration.
C2_NonZeroExitIsFatal ==
    /\ [][(pc = "match" /\ result.tag = "ok" /\ result.status # 0) =>
            /\ pc' = "failed"
            /\ error' = [kind |-> "exit",
                         code |-> IF result.status = NoCode THEN 1
                                  ELSE result.status]
            /\ stop_reason' = None
            /\ invoked' = UpTo(i)
            /\ ~no_log => /\ Len(log_file') = log_start + i
                          /\ log_file'[log_start + i] =
                                [iteration |-> i, exit_code |-> result.status]
                          /\ SubSeq(log_file', 1, Len(log_file)) = log_file
            /\ no_log => log_file' = log_file]_vars
    /\ [][pc = "failed" => FALSE]_vars

\* Iteration 2 of 3 has failed with exit code 2 and the log holds 2 records.
C2_Witness ==
    /\ pc = "failed" /\ error = [kind |-> "exit", code |-> 2]
    /\ iterations = 3 /\ invoked = <<1, 2>>
    /\ ~no_log /\ Len(log_file) = 2

\* C3: a timed-out invocation ends the run normally with stop reason
\* 'runner timed out'; any other invocation error ends it in failed with no
\* stop reason; in both cases nothing is invoked afterwards.
C3_TimeoutStopsOtherErrorsFail ==
    /\ [][(pc = "match" /\ result.tag = "timedout") =>
            /\ pc' = "done"
            /\ stop_reason' = TimedOutReason
            /\ error' = NoError
            /\ invoked' = invoked /\ log_file' = log_file]_vars
    /\ [][(pc = "match" /\ result.tag = "error") =>
            /\ pc' = "failed"
            /\ error'.kind = "invoke"
            /\ stop_reason' = None
            /\ invoked' = invoked /\ log_file' = log_file]_vars
    /\ [][Ended => FALSE]_vars

\* The second of three iterations timed out and the run ended normally.
C3_Witness ==
    /\ pc = "done" /\ stop_reason = TimedOutReason /\ result.tag = "timedout"
    /\ iterations = 3 /\ invoked = <<1, 2>>

\* C4: with iterations = N, no budget hit and every invocation exiting zero
\* without the stop token, the agent is invoked once per index 1..N and the
\* final stop reason is max-iterations.  Fails for N = 0, where no stop
\* reason is recorded (C1).
C4_RunsExactlyNTimes ==
    (pc = "done" /\ stop_reason \notin {MaxRuntimeReason, TimedOutReason, TokenReason})
        => (invoked = UpTo(iterations) /\ stop_reason = MaxIterReason)

\* C5: at the start of an iteration, a configured budget that elapsed time
\* has reached stops the run with max-runtime and without invoking the
\* agent; otherwise the agent is invoked; with no budget configured elapsed
\* time never stops the loop.
C5_BudgetCheckedBeforeInvocation ==
    /\ [][(pc = "loop" /\ i < iterations) =>
            IF max_seconds > 0 /\ elapsed >= Budget
            THEN /\ pc' = "done"
                 /\ stop_reason' = MaxRuntimeReason
                 /\ invoked' = invoked
            ELSE /\ pc' = "invoke"
                 /\ stop_reason' = stop_reason]_vars
    /\ [][Ended => FALSE]_vars
    /\ [](max_seconds = 0 => stop_reason # MaxRuntimeReason)

\* The budget stopped the run at the start of iteration 2, which was not
\* invoked.
C5_Witness ==
    /\ pc = "done" /\ stop_reason = MaxRuntimeReason
    /\ i = 2 /\ invoked = <<1>>

\* A run with a budget and no per-call timeout has ended normally, not by the
\* stop token, after at least one invocation and with the budget used up: an
\* invocation (or the sleep after it) ran past the budget.
C6_RanPastBudget ==
    /\ pc = "done" /\ max_seconds > 0 /\ runner_timeout = 0
    /\ invoked # <<>> /\ stop_reason # TokenReason
    /\ elapsed >= Budget

\* C6 as claimed: after an invocation ran past the budget the stop reason is
\* max-runtime, whichever iteration it was.  Fails on the last allowed
\* iteration.
C6_Original == C6_RanPastBudget => stop_reason = MaxRuntimeReason

\* C6 amended: once the budget is used up no invocation is started; the stop
\* reason is max-runtime when the invocation that ran past the budget was
\* not the last allowed iteration, and max-iterations when it was.
C6_PastBudgetStopsTheRun ==
    /\ [][(max_seconds > 0 /\ elapsed >= Budget) => invoked' = invoked]_vars
    /\ [](C6_RanPastBudget =>
            \/ stop_reason = MaxRuntimeReason /\ Len(invoked) < iterations
            \/ stop_reason = MaxIterReason /\ invoked = UpTo(iterations))

\* The first of three iterations itself ran past the budget (no sleep), and
\* the run stopped with max-runtime before iteration 2.
C6_Witness ==
    /\ pc = "done" /\ stop_reason = MaxRuntimeReason
    /\ runner_timeout = 0 /\ sleep_secs = 0
    /\ iterations = 3 /\ invoked = <<1>> /\ i = 2

\* C7 as claimed: in any iteration whose invocation returns, stdout bytes
\* that contain the token stop the loop with completion-token and bytes that
\* do not never do.  Fails on a non-zero exit, and on a token holding U+FFFD.
C7_Original ==
    [][(pc = "match" /\ result.tag = "ok") =>
         IF Occurs(stop_token, result.stdout)
         THEN pc' = "done" /\ stop_reason' = TokenReason
         ELSE stop_reason' # TokenReason]_vars

\* C7 amended: in any iteration whose invocation returns with exit status
\* zero, the loop stops on that iteration with completion-token exactly when
\* the lossy UTF-8 decoding of stdout contains the token (for a token without
\* U+FFFD: exactly when the stdout bytes contain it), whatever surrounds it
\* and whatever stderr holds; after a non-zero exit it never does.
C7_StopTokenIsSubstringTest ==
    /\ [][(pc = "match" /\ result.tag = "ok" /\ result.status = 0) =>
            IF Occurs(stop_token, FromUtf8Lossy(result.stdout))
            THEN pc' = "done" /\ stop_reason' = TokenReason /\ i' = i
            ELSE stop_reason' # TokenReason]_vars
    /\ [][(pc = "match" /\ result.tag = "ok" /\ result.status = 0
             /\ \A k \in DOMAIN stop_token : stop_token[k] # "R") =>
            (stop_reason' = TokenReason <=> Occurs(stop_token, result.stdout))]_vars
    /\ [][(pc = "match" /\ ~(result.tag = "ok" /\ result.status = 0)) =>
            stop_reason' # TokenReason]_vars

\* Iteration 2 stopped on a two-unit token at the end of a longer stdout,
\* with a stderr that does not hold it.
C7_Witness ==
    /\ pc = "done" /\ stop_reason = TokenReason /\ i = 2
    /\ Len(stop_token) = 2 /\ Len(result.stdout) = 3
    /\ SubSeq(result.stdout, 2, 3) = stop_token
    /\ SubSeq(result.stdout, 1, 2) # stop_token
    /\ result.stderr = <<>>

\* C8 as claimed: after any sequence of runs on the same log file the N-th
\* record has iteration N.  Fails as soon as a second run appends.
C8_Original ==
    \A n \in 1..Len(log_file) : log_file[n].iteration = n

\* C8 amended: the N-th record a run appends has iteration N; so the N-th
\* record of a log file that was empty when the run began has iteration N.
C8_RunNumbersItsRecords ==
    /\ log_start <= Len(log_file)
    /\ \A n \in 1..(Len(log_file) - log_start) :
          log_file[log_start + n].iteration = n

\* A second run has appended two records behind those of the first.
C8_Witness ==
    /\ runs = 2 /\ log_start >= 2 /\ Len(log_file) = log_start + 2

\* C9: the capture buffer never holds more than the limit; it is always a
\* prefix of what the child wrote; when the loop returns it has exactly
\* limit bytes if the child wrote more than that, and is all the child wrote
\* otherwise.
C9_CaptureIsCappedPrefix ==
    /\ Len(buf) <= limit
    /\ Len(buf) <= Len(written) /\ SubSeq(written, 1, Len(buf)) = buf
    /\ rd = "returned" =>
          /\ Len(written) > limit => Len(buf) = limit
          /\ Len(written) <= limit => buf = written

\* The loop returned a full buffer though the child had written more.
C9_Witness ==
    /\ rd = "returned" /\ limit = CaptureCap
    /\ Len(written) > limit /\ Len(buf) = limit

\* C10: stdout and stderr of every Output an invoker returns are within the
\* capture cap.  Fails for run_codex, which replaces stdout by the whole
\* final-message file.
C10_ResultWithinCap ==
    result.tag = "ok" =>
        /\ Len(result.stdout) <= CaptureCap
        /\ Len(result.stderr) <= CaptureCap

\* C18: the stop conditions are evaluated in a fixed order.  The runtime
\* budget is looked at only at the start of an iteration, before the
\* invocation.  After an invocation that returned, a non-zero exit ends the
\* run in failed whatever stdout holds; else the stop token in stdout stops
\* the run with completion-token, also on the last iteration; else the last
\* iteration records max-iterations; else the loop goes on.
C18_StopConditionsInOrder ==
    /\ [][(stop_reason' = MaxRuntimeReason /\ stop_reason # MaxRuntimeReason) =>
            (pc = "loop" /\ invoked' = invoked)]_vars
    /\ [][(pc = "match" /\ result.tag = "ok") =>
            IF result.status # 0
            THEN pc' = "failed" /\ stop_reason' = None
            ELSE IF Occurs(stop_token, FromUtf8Lossy(result.stdout))
            THEN pc' = "done" /\ stop_reason' = TokenReason
            ELSE IF i = iterations
            THEN stop_reason' = MaxIterReason
            ELSE pc' = "loop" /\ stop_reason' = None]_vars

\* The last of two iterations printed the token after the budget had run
\* out during it: the run stopped with completion-token.
C18_Witness ==
    /\ pc = "done" /\ stop_reason = TokenReason
    /\ iterations = 2 /\ i = 2 /\ stop_token = <<"a">>
    /\ max_seconds > 0 /\ elapsed >= Budget
    /\ result.status = 0

\* The units of a final message that are white space only.
Blank(bytes) == \A k \in 1..Len(bytes) : bytes[k] = " "

\* The final-message file can be read as text.
Readable(file) == file.exists /\ "X" \notin {file.bytes[k] : k \in 1..Len(file.bytes)}

\* What the capture of a stream holds of the bytes the child wrote to it.
Captured(bytes) == SubSeq(bytes, 1, IF Len(bytes) < CaptureCap THEN Len(bytes) ELSE CaptureCap)

\* C17: for codex the stdout of the returned Output is the content of the
\* final-message file when the file is readable and not blank, and the raw
\* captured stdout (nothing under --json, where stdout is not captured)
\* otherwise; exit status and stderr are those of the child; sdk and the
\* generic runner return the captured stdout whatever the file holds.
C17_FinalMessageReplacesStdout ==
    (pc = "match" /\ result.tag = "ok") =>
        /\ result.status = child.status
        /\ result.stderr = Captured(child.err)
        /\ result.stdout =
              IF runner = "codex" /\ Readable(child.file) /\ ~Blank(child.file.bytes)
              THEN child.file.bytes
              ELSE IF runner = "codex" /\ codex_json THEN <<>>
              ELSE Captured(child.out)

\* codex wrote a final message with white space around it while its captured
\* stdout held something else: the Output carries the message as written.
C17_Witness ==
    /\ pc = "match" /\ runner = "codex" /\ ~codex_json
    /\ child.out = <<"a", "X">> /\ child.file = FileOf(<<" ", "a", " ">>)
    /\ result.stdout = <<" ", "a", " ">> /\ result.status = 2

\* The call of run_process_with_timeout has returned.
Returned == rpc = "returned"

\* C11: with a timeout configured and a child that never exits by itself,
\* the call eventually returns the timed-out error with the child reaped,
\* whatever the payload and whatever the child does with its pipes.  Fails:
\* write_all precedes the timed wait, so a payload larger than the pipe
\* blocks the call for good when the child does not read it; and a child
\* that closes its input makes the call return a broken-pipe error and
\* leaves the child running (C14).
C11_TimeoutEndsTheCall ==
    (timeout > 0 /\ proc = "running")
        ~> (exited_self \/ (Returned /\ ret.tag = "timedout" /\ proc = "reaped"))

\* C12: when the timeout ends the wait the child is killed, then reaped, and
\* the call returns the timed-out error only, nothing of what was captured;
\* kill and reap both precede the return.
C12_TimeoutKillsReapsFails ==
    /\ [][(rpc = "wait" /\ proc = "running" /\ rpc' # rpc) => rpc' = "kill"]_vars
    /\ [][(rpc \in {"kill", "reap"} /\ Returned') =>
            /\ killed /\ proc = "zombie" /\ proc' = "reaped"
            /\ ret' = [tag |-> "timedout", status |-> 0,
                       stdout |-> <<>>, stderr |-> <<>>]]_vars
    /\ [](rpc = "reap" => killed)
    /\ []((Returned /\ killed) => (ret.tag = "timedout" /\ proc = "reaped"))

\* The timeout ended a call whose drain thread had captured part of stdout:
\* the child is killed and reaped, and the error carries nothing.
C12_Witness ==
    /\ Returned /\ killed /\ ~exited_self /\ proc = "reaped"
    /\ ret.tag = "timedout" /\ ret.stdout = <<>>
    /\ c_buf["out"] # <<>>

\* C13: an Output is returned only after the drain thread of every captured
\* stream has ended, and holds for each captured stream the bytes the child
\* wrote to it before it exited, up to the cap, in whatever order child
\* exit and the two drains happened.
C13_OutputAfterDrains ==
    (Returned /\ ret.tag = "ok") =>
        /\ \A s \in Streams : capture[s] => thr[s] = "returned"
        /\ ret.stdout = IF capture["out"] THEN Captured(c_written["out"]) ELSE <<>>
        /\ ret.stderr = IF capture["err"] THEN Captured(c_written["err"]) ELSE <<>>
        /\ ret.status = exit_code /\ proc = "reaped"

\* The child wrote more than the cap to stdout and something to stderr: the
\* Output holds the first CaptureCap bytes of stdout and all of stderr.
C13_Witness ==
    /\ Returned /\ ret.tag = "ok"
    /\ Len(c_written["out"]) > CaptureCap /\ Len(ret.stdout) = CaptureCap
    /\ ret.stderr = <<"X">> /\ c_pipe["out"] # <<>>

\* C14: a write of the payload that fails because the child has closed its
\* input, or has exited, does not fail the call: the call goes on to wait
\* for the child and returns its Output or the timed-out error.  Fails:
\* the `?` on write_all returns the error from the call.
C14_BrokenPipeIsIgnored ==
    (Returned /\ epipe) => (ret.tag \in {"ok", "timedout"} /\ proc = "reaped")

\* The call has got past the end of the if-let block on stdin.
PastInput == rpc \in {"threads", "wait", "kill", "reap", "join_out", "join_err"}

\* C19: in every call, with a payload, with an empty one or with none, the
\* input stream of the child is closed only after the whole payload has been
\* written, and before the drain threads are started and the wait for the
\* child begins; a child that reads end-of-input has read the whole payload
\* before it; and a child that keeps reading its input reads end-of-input
\* unless it closes its input or ends first.
C19_InputClosedBeforeWait ==
    /\ [](PastInput => (~stdin_w /\ to_write = 0))
    /\ [][(stdin_w /\ ~stdin_w' /\ ~epipe') =>
            (rpc = "close" /\ to_write = 0)]_vars
    /\ [](eof_seen =>
            (~stdin_w /\ received = (IF input = NoInput THEN 0 ELSE input)))
    /\ (proc = "running") ~> (eof_seen \/ ~stdin_r)

\* A child has read end-of-input behind a payload longer than the pipe
\* holds, while the runner waits for it.
C19_Witness ==
    /\ rpc = "wait" /\ proc = "running" /\ eof_seen
    /\ input > PipeCap /\ received = input

\* C15: when the negotiation loop is left by one of its two breaks, goal and
\* next action are both non-empty.
C15_FinishedMeansBothSet ==
    npc = "finished" => (Len(goal) > 0 /\ Len(next_action) > 0)

\* The loop ended after manual entry of the goal, the next action having
\* been taken from a proposal in an earlier round.
C15_Witness ==
    /\ npc = "finished" /\ goal = <<"y", "e">>
    /\ next_action = proposal[2] /\ feedback # <<>>

\* The ways of writing y and yes.
YesForms ==
    {<<"y">>, <<"Y">>}
        \cup {<<a, b, c>> : a \in {"y", "Y"}, b \in {"e", "E"}, c \in {"s", "S"}}

\* line is a way of writing y or yes with white space before and after it.
SaysYes(line) ==
    \E a \in 0..Len(line) : \E b \in a..Len(line) :
        /\ SubSeq(line, a + 1, b) \in YesForms
        /\ \A k \in (1..a) \cup ((b + 1)..Len(line)) : line[k] \in {" ", "\n"}

\* C20: in a round, each field that is empty is asked about once, goal
\* first; y or yes, in any case and with white space around it, sets the
\* field to the value the current proposal has for it; any other line, and
\* end-of-input, leaves it empty; a field that is set is not asked about
\* and keeps its value; the proposal does not change while the questions
\* are put.
C20_YesTakesTheProposedValue ==
    /\ [][npc = "ask_goal" =>
            /\ proposal' = proposal /\ next_action' = next_action
            /\ IF goal = <<>>
               THEN /\ asked' = Append(asked, "goal")
                    /\ goal' = IF SaysYes(last_line') THEN proposal[1] ELSE <<>>
               ELSE asked' = asked /\ goal' = goal /\ last_line' = last_line]_vars
    /\ [][npc = "ask_next" =>
            /\ proposal' = proposal /\ goal' = goal
            /\ IF next_action = <<>>
               THEN /\ asked' = Append(asked, "next_action")
                    /\ next_action' =
                          IF SaysYes(last_line') THEN proposal[2] ELSE <<>>
               ELSE asked' = asked /\ next_action' = next_action
                    /\ last_line' = last_line]_vars
    /\ [][asked' \in {asked, <<>>} \/ npc \in {"ask_goal", "ask_next"}]_vars
    /\ [](asked \in {<<>>, <<"goal">>, <<"next_action">>, <<"goal", "next_action">>})

\* In a round after the first the human answered YeS to the goal question:
\* the goal is the goal of the refined proposal.
C20_Witness ==
    /\ npc = "ask_next" /\ asked = <<"goal">>
    /\ last_line = <<"Y", "e", "S", "\n">>
    /\ feedback # <<>> /\ proposal # Fallback
    /\ goal = proposal[1] /\ next_action = <<>>

\* The units of the output of the agent.
Units == {agent_text[k] : k \in 1..Len(agent_text)}

\* The last unit of the output that is one of `units`; "" when none is.
LastUnit(units) ==
    LET at == {k \in 1..Len(agent_text) : agent_text[k] \in units}
    IN  IF at = {} THEN ""
        ELSE agent_text[CHOOSE k \in at : \A m \in at : m <= k]

\* A non-empty string with no white space at either end.
Trimmed(str) ==
    /\ Len(str) > 0
    /\ str[1] \notin {" ", "\n"} /\ str[Len(str)] \notin {" ", "\n"}

\* C16: parse_goal_payload gives either no proposal or a pair of non-empty
\* trimmed strings that are the string values of members of the output: the
\* last ultimate_goal member (goal only when the object has no
\* ultimate_goal member) and the last next_action member.  An output with
\* a brace missing, with prose inside the object, or whose member for
\* either field is absent, not a string or white space only gives no
\* proposal; nothing is filled in.
C16_ParsingFailsClosed ==
    ppc = "parsed" =>
        /\ \/ payload = <<>>
           \/ /\ Len(payload) = 2 /\ Trimmed(payload[1]) /\ Trimmed(payload[2])
              /\ payload[1] = IF LastUnit({"Us", "Ub", "Un"}) = "Us"
                              THEN <<"u">> ELSE <<"g">>
              /\ payload[2] = <<"a", " ", "a">>
        /\ ("{" \notin Units \/ "}" \notin Units) => payload = <<>>
        /\ (\E a, b, c \in 1..Len(agent_text) :
               /\ a < b /\ b < c
               /\ agent_text[a] = "{" /\ agent_text[b] = "w" /\ agent_text[c] = "}")
             => payload = <<>>
        /\ LastUnit({"As", "Ab", "An"}) # "As" => payload = <<>>
        /\ LastUnit({"Us", "Ub", "Un"}) \in {"Ub", "Un"} => payload = <<>>
        /\ (LastUnit({"Us", "Ub", "Un"}) = "" /\ "Gs" \notin Units) => payload = <<>>

\* A fenced object with a goal member, no ultimate_goal member and two
\* next_action members, the first of them not a string, gave a proposal
\* with the trimmed goal and the trimmed last next_action.
C16_Witness ==
    /\ ppc = "parsed" /\ payload = <<<<"g">>, <<"a", " ", "a">>>>
    /\ agent_text[2] = "F" /\ \E k \in 3..Len(agent_text) : agent_text[k] = "F"
    /\ "An" \in Units /\ LastUnit({"Us", "Ub", "Un"}) = ""

\* C27: the log file changes only by one record appended behind what it
\* holds, in the step that handles an invocation that returned an Output
\* and only with logging on; so with logging on a run has appended as many
\* records as invocations of it have returned and been handled (one that
\* timed out or failed otherwise, and a stop on the runtime budget, append
\* nothing), and with logging off the file stays as the run found it.
C27_LogOnlyGrowsByReturnedInvocations ==
    /\ [][log_file' # log_file =>
            /\ pc = "match" /\ result.tag = "ok" /\ ~no_log
            /\ log_file' = log_file \o <<[iteration |-> i,
                                          exit_code |-> result.status]>>]_vars
    /\ [][(pc = "match" /\ result.tag = "ok" /\ ~no_log) =>
            Len(log_file') = Len(log_file) + 1]_vars
    /\ [](~no_log =>
            Len(log_file) - log_start =
                Len(invoked) - (IF pc = "match" \/ result.tag \in {"timedout", "error"}
                                THEN 1 ELSE 0))
    /\ [](no_log => Len(log_file) = log_start)

\* A second run with logging on ended by a timeout of its second invocation:
\* it has appended one record behind those of the first run.
C27_Witness ==
    /\ runs = 2 /\ pc = "done" /\ stop_reason = TimedOutReason /\ ~no_log
    /\ invoked = <<1, 2>> /\ log_start >= 1 /\ Len(log_file) = log_start + 1

\* C25: the call never comes to a state from which it cannot return: with
\* a child that exits once it has written its output and read its input,
\* as long as the call has not returned some thread or the child can take a
\* step.  Fails: the payload is written before the drain threads exist, so
\* a child that fills an output pipe before it reads its input and the
\* runner, blocked in write_all on a full input pipe, wait for each other.
C25_RunnerNeverDeadlocks == Returned \/ ENABLED NextOutFirst

Strip(str) ==
    LET keep == {k \in 1..Len(str) : str[k] \notin {" ", "\n"}}
    IN  IF keep = {} THEN <<>>
        ELSE SubSeq(str, CHOOSE k \in keep : \A m \in keep : k <= m,
                         CHOOSE k \in keep : \A m \in keep : m <= k)

\* The body of the fenced block the output opens with: what stands between
\* the end of its first line and the start of the next line whose first
\* unit after spaces is the fence marker (the end of the output when there
\* is no such line), stripped; <<>> when the output does not open with a
\* fence.
FencedBody ==
    LET out == Strip(agent_text)
        nls == {k \in 1..Len(out) : out[k] = "\n"}
        fences == {k \in 2..Len(out) :
                      /\ out[k - 1] = "\n"
                      /\ \E j \in k..Len(out) :
                            out[j] = "F" /\ \A m \in k..(j - 1) : out[m] = " "}
        from == CHOOSE k \in nls : \A m \in nls : k <= m
        to == IF fences = {} THEN Len(out) + 1
              ELSE CHOOSE k \in fences : \A m \in fences : k <= m
    IN  IF out = <<>> \/ out[1] # "F" \/ nls = {} THEN <<>>
        ELSE Strip(SubSeq(out, from + 1, to - 1))

\* The output from its first "{" to its last "}"; <<>> when it lacks one of
\* them or the last "}" is not after the first "{".
BraceSpan ==
    LET opens == {k \in 1..Len(agent_text) : agent_text[k] = "{"}
        closes == {k \in 1..Len(agent_text) : agent_text[k] = "}"}
        start == CHOOSE k \in opens : \A m \in opens : k <= m
        end == CHOOSE k \in closes : \A m \in closes : m <= k
    IN  IF opens = {} \/ closes = {} THEN <<>>
        ELSE IF end <= start THEN <<>>
        ELSE SubSeq(agent_text, start, end)

\* The object with both fields, and the proposal it holds.
TwoFieldObject == <<"{", "Us", "As", "}">>
ItsProposal == <<<<"u">>, <<"a", " ", "a">>>>

\* The output has the object somewhere in it.
HoldsObject ==
    \E k \in 1..Len(agent_text) :
        k + 3 <= Len(agent_text) /\ SubSeq(agent_text, k, k + 3) = TwoFieldObject

C21_OneSeededCallEndsARound ==
    /\ [][inference' # inference =>
            /\ inference'.n = inference.n + 1
            /\ npc \in {"infer", "refine"}]_vars
    /\ [][(npc \in {"ask_goal", "ask_next", "feedback"}) =>
            /\ inference' = inference
            /\ proposal' = proposal]_vars
    /\ [][npc' = "refine" =>
            /\ npc = "feedback"
            /\ feedback' = Strip(last_line') /\ feedback' # <<>>
            /\ goal' = <<>> \/ next_action' = <<>>]_vars
    /\ [][npc = "refine" =>
            /\ inference'.n = inference.n + 1
            /\ inference'.prompt = [feedback |-> feedback, previous |-> proposal]
            /\ npc' # "refine"
            /\ inference'.result.pair # NoProposal =>
                  /\ npc' = "ask_goal" /\ asked' = <<>>
                  /\ proposal' = inference'.result.pair]_vars

\* A second round started with the proposal that the call at the end of the
\* first gave; that call had the feedback "no" and the fallback proposal of
\* the first round in its prompt.
C21_Witness ==
    /\ npc = "ask_goal" /\ inference.n = 2
    /\ inference.prompt = [feedback |-> <<"n", "o">>, previous |-> Fallback]
    /\ inference.result.pair \in Proposals
    /\ proposal = inference.result.pair

\* The refining inference call gave no proposal and the negotiation is at
\* the manual entry of the goal, at that of the next action, or past both.
ManualEntry ==
    /\ npc \in {"manual_goal", "manual_next", "finished"}
    /\ inference.n > 1 /\ inference.result.ok
    /\ inference.result.pair = NoProposal

\* C22: a refining inference call that gives no proposal is followed by the
\* manual entry of the goal, then that of the next action, then the end of
\* the negotiation, with no inference call and no new proposal on the way.
\* A field that is set is not prompted for (no line is read) and keeps its
\* value; a field that is unset is prompted for, takes the non-empty
\* trimmed line that is typed, and the negotiation moves on as soon as such
\* a line is read.
C22_NoProposalLeadsToManualEntry ==
    /\ [][(npc = "refine" /\ inference'.result.ok
             /\ inference'.result.pair = NoProposal) =>
            /\ npc' = "manual_goal"
            /\ UNCHANGED <<goal, next_action, proposal, last_line>>]_vars
    /\ [][ManualEntry =>
            /\ UNCHANGED <<inference, proposal, asked, feedback>>
            /\ goal # <<>> => goal' = goal
            /\ next_action # <<>> => next_action' = next_action
            /\ npc = "manual_goal" =>
                  /\ npc' \in {"manual_goal", "manual_next"}
                  /\ next_action' = next_action
                  /\ goal # <<>> => UNCHANGED <<last_line, human_eof>>
                  /\ goal = <<>> => goal' \in {<<>>, Strip(last_line')}
                  /\ (npc' = "manual_next") = (goal' # <<>>)
            /\ npc = "manual_next" =>
                  /\ npc' \in {"manual_next", "finished"}
                  /\ goal' = goal
                  /\ next_action # <<>> => UNCHANGED <<last_line, human_eof>>
                  /\ next_action = <<>> =>
                        next_action' \in {<<>>, Strip(last_line')}
                  /\ (npc' = "finished") = (next_action' # <<>>)
            /\ npc = "finished" => UNCHANGED vars]_vars

\* The goal was accepted in the first round, the refining call gave no
\* proposal, and the negotiation ended with the accepted goal and a next
\* action that was typed.
C22_Witness ==
    /\ ManualEntry /\ npc = "finished" /\ inference.n = 2
    /\ goal = Fallback[1] /\ next_action = <<"n", "o">>
    /\ asked = <<"goal", "next_action">>

\* C26: a goal that is not empty, and likewise a next action that is not
\* empty, keeps its value in every later step of the negotiation, and no
\* step puts the question about it or reads a line to enter it.
C26_SetFieldIsKeptAndNotAskedAgain ==
    /\ [][goal # <<>> =>
            /\ goal' = goal
            /\ asked' # Append(asked, "goal")
            /\ (npc \in {"ask_goal", "manual_goal"}) =>
                  UNCHANGED <<last_line, human_eof>>]_vars
    /\ [][next_action # <<>> =>
            /\ next_action' = next_action
            /\ asked' # Append(asked, "next_action")
            /\ (npc \in {"ask_next", "manual_next"}) =>
                  UNCHANGED <<last_line, human_eof>>]_vars

\* The goal came from the command line; after a second proposal, which has
\* another goal, and a question about the next action only, the negotiation
\* ended with the goal of the command line.
C26_Witness ==
    /\ npc = "finished" /\ inference.n = 2
    /\ goal = <<"c">> /\ proposal[1] = <<"g", "g">>
    /\ next_action = proposal[2] /\ asked = <<"next_action">>

\* C28: when the input of the human has ended, a prompt for the feedback,
\* for the goal or for the next action does not go on for ever: the
\* negotiation can still take a step that changes something, towards its
\* end or towards an error.
C28_PromptsEndWithTheInput ==
    (human_eof /\ npc \in {"feedback", "manual_goal", "manual_next"})
        => ENABLED <<NextNeg>>_vars

\* C29: an inference call that failed, because it timed out, because the
\* child could not be run, or because the agent exited with a status other
\* than zero, is not taken as "no proposal" and gives no stop reason: the
\* program is aborted with the prompt template not written and no iteration
\* of the loop run.
C29_FailedInferenceAborts ==
    (inference.n > 0 /\ (~inference.result.ok \/ inference.result.status # 0))
        => /\ npc = "aborted"
           /\ ~template /\ stop_reason = None
           /\ i = 0 /\ invoked = <<>>

====
